---- MODULE Spec2Model ----
(***************************************************************************)
(* A model of the RISC-V integration-test toolchain:                       *)
(*   - the two-pass assembler  (base_tests/integration_tests/assembler.py) *)
(*   - the reference CPU       (random_tests/.../tests_runner.py)          *)
(*   - the test generators gen_memory_walk and gen_branch_maze, which      *)
(*     drive the reference CPU while they emit assembly                    *)
(*                                                                         *)
(* Python strings are sequences of one-character strings, so the string    *)
(* operations of the assembler (strip, split, replace, slicing, int(s,0),  *)
(* f"{val:0{bits}b}") are modelled by what they do to the characters.      *)
(* Python integers wider than 31 bits (the register contents of the        *)
(* reference CPU) are pairs <<hi, lo>> of value hi * 65536 + lo with       *)
(* lo in 0..65535.                                                         *)
(***************************************************************************)
EXTENDS Integers, Sequences, FiniteSets, TLC

VARIABLES
    src,            \* the program as the test author wrote it (line descriptors)
    lines,          \* assemble's argument: the source text, one string per line
    apc,            \* control position of assembler.py / __main__
    li,             \* index of the next line of `for line in lines`
    labels,         \* assemble.labels
    pc,             \* assemble.pc of pass 1
    instructions,   \* assemble.instructions: <<pc, text>> pairs
    ii,             \* index of the next pair of `for pc, line in instructions`
    binary_lines,   \* assemble.binary_lines
    error,          \* the exception in flight, or NoError
    bins,           \* __main__'s bins: the value assemble returned, or None
    stdout,         \* the lines __main__ printed
    sim_regs,       \* ReferenceCPU.regs
    sim_mem,        \* ReferenceCPU.mem
    call,           \* the arguments of the latest ReferenceCPU.execute call
    u_rs1,          \* execute's local u_rs1 of that call
    u_rs2,          \* execute's local u_rs2 of that call
    nsteps,         \* number of execute calls made so far
    hist,           \* the execute calls of a free run on a fresh ReferenceCPU
    gpc,            \* position of the running test generator
    asm,            \* the generator's asm list: the instructions it emitted
    current_ptr,    \* gen_memory_walk.current_ptr
    gstep,          \* iterations the generator's loop has made
    hw_regs         \* registers after the emitted program ran on the CPU

asm_vars == <<src, lines, apc, li, labels, pc, instructions, ii,
              binary_lines, error, bins, stdout>>
cpu_vars == <<sim_regs, sim_mem, call, u_rs1, u_rs2, nsteps>>
gen_vars == <<hist, gpc, asm, current_ptr, gstep, hw_regs>>
vars == <<asm_vars, cpu_vars, gen_vars>>

(***************************************************************************)
(* Python string operations.                                               *)
(***************************************************************************)
Whitespace == {" ", "\t", "\n", "\r"}

RECURSIVE lstrip(_)
lstrip(s) == IF s # <<>> /\ Head(s) \in Whitespace THEN lstrip(Tail(s)) ELSE s

RECURSIVE rstrip(_)
rstrip(s) ==
    IF s # <<>> /\ s[Len(s)] \in Whitespace
    THEN rstrip(SubSeq(s, 1, Len(s) - 1))
    ELSE s

strip(s) == rstrip(lstrip(s))

\* index of the first character of s that is in set cs, 0 when there is none
FirstIn(s, cs) ==
    IF \E i \in 1..Len(s) : s[i] \in cs
    THEN CHOOSE i \in 1..Len(s) : s[i] \in cs /\ \A j \in 1..(i - 1) : s[j] \notin cs
    ELSE 0

\* s.split(c): the pieces of s between the occurrences of character c
RECURSIVE split(_, _)
split(s, c) ==
    LET i == FirstIn(s, {c})
    IN  IF i = 0
        THEN <<s>>
        ELSE <<SubSeq(s, 1, i - 1)>> \o split(SubSeq(s, i + 1, Len(s)), c)

\* re.split(r'\s+', s): the pieces of s between runs of whitespace
RECURSIVE re_split_ws(_)
re_split_ws(s) ==
    LET i == FirstIn(s, Whitespace)
    IN  IF i = 0
        THEN <<s>>
        ELSE <<SubSeq(s, 1, i - 1)>> \o re_split_ws(lstrip(SubSeq(s, i, Len(s))))

\* "".join(parts)
RECURSIVE join(_)
join(parts) == IF parts = <<>> THEN <<>> ELSE Head(parts) \o join(Tail(parts))

\* s.replace(c, "")
replace(s, c) == SelectSeq(s, LAMBDA ch : ch # c)

endswith(s, c) == s # <<>> /\ s[Len(s)] = c

contains(s, c) == \E i \in 1..Len(s) : s[i] = c

\* [a.strip() for a in args]
StripAll(xs) == [k \in 1..Len(xs) |-> strip(xs[k])]

(***************************************************************************)
(* Numerals.                                                               *)
(***************************************************************************)
DigitChars == <<"0", "1", "2", "3", "4", "5", "6", "7", "8", "9",
                "a", "b", "c", "d", "e", "f">>

\* the value of digit character ch, lower or upper case; -1 when it is none
DigitVal(ch) ==
    IF \E d \in 1..16 : DigitChars[d] = ch
    THEN (CHOOSE d \in 1..16 : DigitChars[d] = ch) - 1
    ELSE CASE ch = "A" -> 10 [] ch = "B" -> 11 [] ch = "C" -> 12
           [] ch = "D" -> 13 [] ch = "E" -> 14 [] ch = "F" -> 15
           [] OTHER -> -1

\* the digits of n >= 0 in the given base, most significant first
RECURSIVE Digits(_, _)
Digits(n, base) ==
    IF n < base
    THEN <<DigitChars[n + 1]>>
    ELSE Digits(n \div base, base) \o <<DigitChars[(n % base) + 1]>>

\* str(n), as an f-string renders a Python int
Dec(n) == IF n < 0 THEN <<"-">> \o Digits(-n, 10) ELSE Digits(n, 10)

\* hex(n) for n >= 0
Hex(n) == <<"0", "x">> \o Digits(n, 16)

Zeros(k) == [j \in 1..k |-> "0"]

\* f"{val:0{bits}b}": sign-aware zero padding to a MINIMUM width of `bits`
FormatBin(val, bits) ==
    LET mag  == Digits(IF val < 0 THEN -val ELSE val, 2)
        sign == IF val < 0 THEN <<"-">> ELSE <<>>
        pad  == bits - Len(sign) - Len(mag)
    IN  sign \o Zeros(IF pad > 0 THEN pad ELSE 0) \o mag

\* 1 << bits
RECURSIVE Pow2(_)
Pow2(k) == IF k = 0 THEN 1 ELSE 2 * Pow2(k - 1)

\* to_bin with the two's-complement offset one bit short
to_bin_wrong(val, bits) == FormatBin(IF val < 0 THEN Pow2(bits - 1) + val ELSE val, bits)

to_bin(val, bits) == FormatBin(IF val < 0 THEN Pow2(bits) + val ELSE val, bits)


(***************************************************************************)
(* int(s, 0): optional sign, then 0x / 0o / 0b digits or a decimal         *)
(* numeral without leading zeros; underscores may separate digits.         *)
(***************************************************************************)
ValidRun(d, base, leading) ==
    /\ d # <<>>
    /\ d[Len(d)] # "_"
    /\ leading \/ d[1] # "_"
    /\ \A i \in 1..(Len(d) - 1) : ~(d[i] = "_" /\ d[i + 1] = "_")
    /\ \A i \in 1..Len(d) : d[i] = "_" \/ (DigitVal(d[i]) >= 0 /\ DigitVal(d[i]) < base)

RECURSIVE RunValue(_, _)
RunValue(d, base) ==
    IF d = <<>> THEN 0
    ELSE RunValue(SubSeq(d, 1, Len(d) - 1), base) * base + DigitVal(d[Len(d)])

Unsigned(t) ==
    LET two  == IF Len(t) >= 2 THEN SubSeq(t, 1, 2) ELSE <<>>
        rest == SubSeq(t, 3, Len(t))
        base == CASE two \in {<<"0", "x">>, <<"0", "X">>} -> 16
                  [] two \in {<<"0", "o">>, <<"0", "O">>} -> 8
                  [] two \in {<<"0", "b">>, <<"0", "B">>} -> 2
                  [] OTHER -> 10
        digs == replace(IF base = 10 THEN t ELSE rest, "_")
    IN  IF base # 10
        THEN [ok |-> ValidRun(rest, base, TRUE), val |-> RunValue(digs, base)]
        ELSE [ok |-> /\ ValidRun(t, 10, FALSE)
                     /\ (t[1] # "0" \/ \A i \in 1..Len(digs) : digs[i] = "0"),
              val |-> RunValue(digs, 10)]

int0(s) ==
    LET t    == strip(s)
        neg  == t # <<>> /\ t[1] = "-"
        sgn  == t # <<>> /\ t[1] \in {"-", "+"}
        body == Unsigned(IF sgn THEN Tail(t) ELSE t)
    IN  IF body.ok
        THEN [ok |-> TRUE, val |-> IF neg THEN -body.val ELSE body.val]
        ELSE [ok |-> FALSE, val |-> 0]

(***************************************************************************)
(* The register map and the instruction table.                             *)
(***************************************************************************)
RegNames ==
    { <<(<<"x">> \o Dec(i)), i>> : i \in 0..31 } \cup
    { <<<<"z", "e", "r", "o">>, 0>>,
      <<<<"r", "a">>, 1>>,
      <<<<"s", "p">>, 2>>,
      <<<<"g", "p">>, 3>>,
      <<<<"t", "p">>, 4>>,
      <<<<"t", "0">>, 5>>,
      <<<<"t", "1">>, 6>>,
      <<<<"t", "2">>, 7>>,
      <<<<"s", "0">>, 8>>,
      <<<<"f", "p">>, 8>>,
      <<<<"s", "1">>, 9>>,
      <<<<"a", "0">>, 10>>,
      <<<<"a", "1">>, 11>>,
      <<<<"a", "2">>, 12>>,
      <<<<"a", "3">>, 13>>,
      <<<<"a", "4">>, 14>>,
      <<<<"a", "5">>, 15>>,
      <<<<"a", "6">>, 16>>,
      <<<<"a", "7">>, 17>>,
      <<<<"s", "2">>, 18>>,
      <<<<"s", "3">>, 19>>,
      <<<<"s", "4">>, 20>>,
      <<<<"s", "5">>, 21>>,
      <<<<"s", "6">>, 22>>,
      <<<<"s", "7">>, 23>>,
      <<<<"s", "8">>, 24>>,
      <<<<"s", "9">>, 25>>,
      <<<<"s", "1", "0">>, 26>>,
      <<<<"s", "1", "1">>, 27>>,
      <<<<"t", "3">>, 28>>,
      <<<<"t", "4">>, 29>>,
      <<<<"t", "5">>, 30>>,
      <<<<"t", "6">>, 31>> }

regs == [n \in {p[1] : p \in RegNames} |-> (CHOOSE p \in RegNames : p[1] = n)[2]]

Descriptors ==
    { [mnemonic |-> <<"a", "d", "d">>, type |-> "R", opcode |-> <<"0", "1", "1", "0", "0", "1", "1">>,
       funct3 |-> <<"0", "0", "0">>, funct7 |-> <<"0", "0", "0", "0", "0", "0", "0">>],
      [mnemonic |-> <<"s", "u", "b">>, type |-> "R", opcode |-> <<"0", "1", "1", "0", "0", "1", "1">>,
       funct3 |-> <<"0", "0", "0">>, funct7 |-> <<"0", "1", "0", "0", "0", "0", "0">>],
      [mnemonic |-> <<"a", "n", "d">>, type |-> "R", opcode |-> <<"0", "1", "1", "0", "0", "1", "1">>,
       funct3 |-> <<"1", "1", "1">>, funct7 |-> <<"0", "0", "0", "0", "0", "0", "0">>],
      [mnemonic |-> <<"o", "r">>, type |-> "R", opcode |-> <<"0", "1", "1", "0", "0", "1", "1">>,
       funct3 |-> <<"1", "1", "0">>, funct7 |-> <<"0", "0", "0", "0", "0", "0", "0">>],
      [mnemonic |-> <<"s", "l", "t">>, type |-> "R", opcode |-> <<"0", "1", "1", "0", "0", "1", "1">>,
       funct3 |-> <<"0", "1", "0">>, funct7 |-> <<"0", "0", "0", "0", "0", "0", "0">>],
      [mnemonic |-> <<"a", "d", "d", "i">>, type |-> "I", opcode |-> <<"0", "0", "1", "0", "0", "1", "1">>,
       funct3 |-> <<"0", "0", "0">>],
      [mnemonic |-> <<"l", "w">>, type |-> "I_load", opcode |-> <<"0", "0", "0", "0", "0", "1", "1">>,
       funct3 |-> <<"0", "1", "0">>],
      [mnemonic |-> <<"j", "a", "l", "r">>, type |-> "I", opcode |-> <<"1", "1", "0", "0", "1", "1", "1">>,
       funct3 |-> <<"0", "0", "0">>],
      [mnemonic |-> <<"s", "w">>, type |-> "S", opcode |-> <<"0", "1", "0", "0", "0", "1", "1">>,
       funct3 |-> <<"0", "1", "0">>],
      [mnemonic |-> <<"b", "e", "q">>, type |-> "B", opcode |-> <<"1", "1", "0", "0", "0", "1", "1">>,
       funct3 |-> <<"0", "0", "0">>],
      [mnemonic |-> <<"b", "n", "e">>, type |-> "B", opcode |-> <<"1", "1", "0", "0", "0", "1", "1">>,
       funct3 |-> <<"0", "0", "1">>],
      [mnemonic |-> <<"b", "l", "t">>, type |-> "B", opcode |-> <<"1", "1", "0", "0", "0", "1", "1">>,
       funct3 |-> <<"1", "0", "0">>],
      [mnemonic |-> <<"l", "u", "i">>, type |-> "U", opcode |-> <<"0", "1", "1", "0", "1", "1", "1">>],
      [mnemonic |-> <<"j", "a", "l">>, type |-> "J", opcode |-> <<"1", "1", "0", "1", "1", "1", "1">>] }

opcodes == [m \in {d.mnemonic : d \in Descriptors} |->
               CHOOSE d \in Descriptors : d.mnemonic = m]

(***************************************************************************)
(* Exceptions.  exc is the Python exception class, msg the message up to   *)
(* the interpolated token, token the interpolated text.                    *)
(***************************************************************************)
NoError == [exc |-> "none", msg |-> "", token |-> <<>>]

ValueError(m, t) == [exc |-> "ValueError", msg |-> m, token |-> t]

\* args[k] with k beyond the end of the list
IndexError == [exc |-> "IndexError", msg |-> "list index out of range", token |-> <<>>]

\* val_part, reg_part = <a list of more than two pieces>
UnpackError == [exc |-> "ValueError", msg |-> "too many values to unpack (expected 2)",
                token |-> <<>>]

Ok(v) == [ok |-> TRUE, val |-> v, err |-> NoError]

Raise(e) == [ok |-> FALSE, val |-> 0, err |-> e]

parse_reg(s) ==
    LET t == replace(strip(s), ",")
    IN  IF t \in DOMAIN regs THEN Ok(regs[t]) ELSE Raise(ValueError("Unknown register", t))

\* labels[s] - pc

ResolveLabel(label_pc, at_pc) == label_pc - at_pc

parse_imm(s, labs, at_pc) ==
    LET t == replace(strip(s), ",")
    IN  IF t \in DOMAIN labs
        THEN Ok(ResolveLabel(labs[t], at_pc))
        ELSE IF int0(t).ok THEN Ok(int0(t).val)
             ELSE Raise(ValueError("Invalid immediate", t))


(***************************************************************************)
(* Pass 2: the encoding of one queued instruction.                         *)
(***************************************************************************)
\* s[a:b] of Python (0-based, end exclusive, clipped to the string)
Slice(s, a, b) == SubSeq(s, a + 1, IF b < Len(s) THEN b ELSE Len(s))

\* parse_reg(args[k]) for the 0-based k
ArgReg(args, k) == IF k < Len(args) THEN parse_reg(args[k + 1]) ELSE Raise(IndexError)

\* parse_imm(args[k], labels, pc) for the 0-based k
ArgImm(args, k, labs, at_pc) ==
    IF k < Len(args) THEN parse_imm(args[k + 1], labs, at_pc) ELSE Raise(IndexError)

\* the imm(rs1) operand args[1] of lw and sw
MemOperand(args, labs, at_pc) ==
    IF Len(args) < 2 THEN [ok |-> FALSE, imm |-> 0, rs1 |-> 0, err |-> IndexError]
    ELSE
    LET a == args[2]
    IN  IF contains(a, "(") /\ endswith(a, ")")
        THEN LET pieces == split(SubSeq(a, 1, Len(a) - 1), "(")
             IN  IF Len(pieces) # 2
                 THEN [ok |-> FALSE, imm |-> 0, rs1 |-> 0, err |-> UnpackError]
                 ELSE LET imm == parse_imm(pieces[1], labs, at_pc)
                          rs1 == parse_reg(pieces[2])
                      IN  IF ~imm.ok
                          THEN [ok |-> FALSE, imm |-> 0, rs1 |-> 0, err |-> imm.err]
                          ELSE IF ~rs1.ok
                          THEN [ok |-> FALSE, imm |-> 0, rs1 |-> 0, err |-> rs1.err]
                          ELSE [ok |-> TRUE, imm |-> imm.val, rs1 |-> rs1.val,
                                err |-> NoError]
        ELSE [ok |-> FALSE, imm |-> 0, rs1 |-> 0,
              err |-> ValueError("Invalid memory operand", a)]

EncodeR(op, args) ==
    LET rd  == ArgReg(args, 0)
        rs1 == ArgReg(args, 1)
        rs2 == ArgReg(args, 2)
    IN  IF ~rd.ok THEN Raise(rd.err)
        ELSE IF ~rs1.ok THEN Raise(rs1.err)
        ELSE IF ~rs2.ok THEN Raise(rs2.err)
        ELSE Ok(op.funct7 \o to_bin(rs2.val, 5) \o to_bin(rs1.val, 5) \o op.funct3
                \o to_bin(rd.val, 5) \o op.opcode)

EncodeI(op, args, labs, at_pc) ==
    LET rd  == ArgReg(args, 0)
        rs1 == ArgReg(args, 1)
        imm == ArgImm(args, 2, labs, at_pc)
    IN  IF ~rd.ok THEN Raise(rd.err)
        ELSE IF ~rs1.ok THEN Raise(rs1.err)
        ELSE IF ~imm.ok THEN Raise(imm.err)
        ELSE Ok(to_bin(imm.val, 12) \o to_bin(rs1.val, 5) \o op.funct3
                \o to_bin(rd.val, 5) \o op.opcode)

EncodeI_load(op, args, labs, at_pc) ==
    LET rd == ArgReg(args, 0)
        m  == MemOperand(args, labs, at_pc)
    IN  IF ~rd.ok THEN Raise(rd.err)
        ELSE IF ~m.ok THEN Raise(m.err)
        ELSE Ok(to_bin(m.imm, 12) \o to_bin(m.rs1, 5) \o op.funct3
                \o to_bin(rd.val, 5) \o op.opcode)

\* the S layout with the two halves of the immediate exchanged
EncodeS_lowfirst(op, args, labs, at_pc) ==
    LET rs2 == ArgReg(args, 0)
        m   == MemOperand(args, labs, at_pc)
        imm_bin == to_bin(m.imm, 12)
    IN  IF ~rs2.ok THEN Raise(rs2.err)
        ELSE IF ~m.ok THEN Raise(m.err)
        ELSE Ok(Slice(imm_bin, 5, Len(imm_bin)) \o to_bin(rs2.val, 5) \o to_bin(m.rs1, 5)
                \o op.funct3 \o Slice(imm_bin, 0, 5) \o op.opcode)

EncodeS(op, args, labs, at_pc) ==
    LET rs2 == ArgReg(args, 0)
        m   == MemOperand(args, labs, at_pc)
        imm_bin == to_bin(m.imm, 12)
    IN  IF ~rs2.ok THEN Raise(rs2.err)
        ELSE IF ~m.ok THEN Raise(m.err)
        ELSE Ok(Slice(imm_bin, 0, 7) \o to_bin(rs2.val, 5) \o to_bin(m.rs1, 5)
                \o op.funct3 \o Slice(imm_bin, 7, Len(imm_bin)) \o op.opcode)

\* the B layout with the slices of the immediate in plain order
EncodeB_swapped(op, args, labs, at_pc) ==
    LET rs1 == ArgReg(args, 0)
        rs2 == ArgReg(args, 1)
        imm == ArgImm(args, 2, labs, at_pc)
        imm_bin == to_bin(imm.val, 13)
    IN  IF ~rs1.ok THEN Raise(rs1.err)
        ELSE IF ~rs2.ok THEN Raise(rs2.err)
        ELSE IF ~imm.ok THEN Raise(imm.err)
        ELSE Ok(<<imm_bin[2]>> \o Slice(imm_bin, 2, 8) \o to_bin(rs2.val, 5)
                \o to_bin(rs1.val, 5) \o op.funct3 \o Slice(imm_bin, 8, 12)
                \o <<imm_bin[1]>> \o op.opcode)

EncodeB(op, args, labs, at_pc) ==
    LET rs1 == ArgReg(args, 0)
        rs2 == ArgReg(args, 1)
        imm == ArgImm(args, 2, labs, at_pc)
        imm_bin == to_bin(imm.val, 13)
        b12   == imm_bin[1]
        b11   == imm_bin[2]
        b10_5 == Slice(imm_bin, 2, 8)
        b4_1  == Slice(imm_bin, 8, 12)
    IN  IF ~rs1.ok THEN Raise(rs1.err)
        ELSE IF ~rs2.ok THEN Raise(rs2.err)
        ELSE IF ~imm.ok THEN Raise(imm.err)
        ELSE Ok(<<b12>> \o b10_5 \o to_bin(rs2.val, 5) \o to_bin(rs1.val, 5)
                \o op.funct3 \o b4_1 \o <<b11>> \o op.opcode)

EncodeU(op, args, labs, at_pc) ==
    LET rd  == ArgReg(args, 0)
        imm == ArgImm(args, 1, labs, at_pc)
    IN  IF ~rd.ok THEN Raise(rd.err)
        ELSE IF ~imm.ok THEN Raise(imm.err)
        ELSE Ok(to_bin(imm.val, 20) \o to_bin(rd.val, 5) \o op.opcode)

EncodeJ(op, args, labs, at_pc) ==
    LET rd  == ArgReg(args, 0)
        imm == ArgImm(args, 1, labs, at_pc)
        imm_bin == to_bin(imm.val, 21)
        b20    == imm_bin[1]
        b19_12 == Slice(imm_bin, 1, 9)
        b11    == imm_bin[10]
        b10_1  == Slice(imm_bin, 10, 20)
    IN  IF ~rd.ok THEN Raise(rd.err)
        ELSE IF ~imm.ok THEN Raise(imm.err)
        ELSE Ok(<<b20>> \o b10_1 \o <<b11>> \o b19_12 \o to_bin(rd.val, 5) \o op.opcode)

\* the body of `for pc, line in instructions`, up to bin_str
Encode(at_pc, line, labs) ==
    LET parts == re_split_ws(line)
        instr == parts[1]
        args  == StripAll(split(join(Tail(parts)), ","))
    IN  IF instr \notin DOMAIN opcodes
        THEN Raise(ValueError("Unknown instruction", instr))
        ELSE LET op == opcodes[instr]
             IN  CASE op.type = "R"      -> EncodeR(op, args)
                   [] op.type = "I"      -> EncodeI(op, args, labs, at_pc)
                   [] op.type = "I_load" -> EncodeI_load(op, args, labs, at_pc)
                   [] op.type = "S"      -> EncodeS(op, args, labs, at_pc)
                   [] op.type = "B"      -> EncodeB(op, args, labs, at_pc)
                   [] op.type = "U"      -> EncodeU(op, args, labs, at_pc)
                   [] op.type = "J"      -> EncodeJ(op, args, labs, at_pc)


(***************************************************************************)
(* Pass 1: one iteration of `for line in lines`, on the record             *)
(* st = [labels, pc, instructions] of assemble's locals.                   *)
(***************************************************************************)
\* labels[name] = value
Put(labs, name, value) ==
    [n \in DOMAIN labs \cup {name} |-> IF n = name THEN value ELSE labs[n]]

\* the queue step recording the address after the increment
QueueInstr_late(st, line) ==
    [labels |-> st.labels, pc |-> st.pc + 4,
     instructions |-> Append(st.instructions, <<st.pc + 4, line>>)]

\* instructions.append((pc, line)); pc += 4
QueueInstr(st, line) ==
    [labels |-> st.labels, pc |-> st.pc + 4,
     instructions |-> Append(st.instructions, <<st.pc, line>>)]

Pass1Line(raw, st) ==
    LET line == strip(split(raw, "#")[1])
    IN  IF line = <<>> THEN st
        ELSE IF endswith(line, ":")
        THEN [st EXCEPT !.labels = Put(@, SubSeq(line, 1, Len(line) - 1), st.pc)]
        ELSE IF contains(line, ":")
        THEN LET parts == split(line, ":")
                 st1   == [st EXCEPT !.labels = Put(@, strip(parts[1]), st.pc)]
                 rest  == strip(parts[2])
             IN  IF rest = <<>> THEN st1 ELSE QueueInstr(st1, rest)
        ELSE QueueInstr(st, line)

(***************************************************************************)
(* The assembler as a state machine: assemble(lines) called by __main__.   *)
(***************************************************************************)
\* bins before `bins = assemble(lines)` has assigned it
Unbound == <<"unbound">>

Pass1Step ==
    /\ apc = "pass1"
    /\ li <= Len(lines)
    /\ LET st == Pass1Line(lines[li], [labels |-> labels, pc |-> pc,
                                       instructions |-> instructions])
       IN  /\ labels' = st.labels
           /\ pc' = st.pc
           /\ instructions' = st.instructions
    /\ li' = li + 1
    /\ UNCHANGED <<src, lines, apc, ii, binary_lines, error, bins, stdout, cpu_vars, gen_vars>>

\* a single-pass assembler: encoding starts before every label is recorded
Pass1Done_early ==
    /\ apc = "pass1"
    /\ apc' = "pass2"
    /\ UNCHANGED <<src, lines, li, labels, pc, instructions, ii, binary_lines,
                   error, bins, stdout, cpu_vars, gen_vars>>

\* the first loop is exhausted: binary_lines = [] and the second loop starts
Pass1Done ==
    /\ apc = "pass1"
    /\ li > Len(lines)
    /\ apc' = "pass2"
    /\ UNCHANGED <<src, lines, li, labels, pc, instructions, ii, binary_lines,
                   error, bins, stdout, cpu_vars, gen_vars>>

\* a second pass that keeps the words encoded before the failure
Pass2Step_partial ==
    /\ apc = "pass2"
    /\ ii <= Len(instructions)
    /\ LET r == Encode(instructions[ii][1], instructions[ii][2], labels)
       IN  IF r.ok
           THEN /\ binary_lines' = Append(binary_lines, r.val)
                /\ ii' = ii + 1
                /\ UNCHANGED <<apc, error, bins>>
           ELSE /\ error' = r.err
                /\ apc' = "returned"
                /\ bins' = binary_lines
                /\ UNCHANGED <<binary_lines, ii>>
    /\ UNCHANGED <<src, lines, li, labels, pc, instructions, stdout, cpu_vars, gen_vars>>

\* one iteration of the second loop; an exception leaves assemble and is
\* caught by __main__'s except clause, which writes to stderr and exits
Pass2Step ==
    /\ apc = "pass2"
    /\ ii <= Len(instructions)
    /\ LET r == Encode(instructions[ii][1], instructions[ii][2], labels)
       IN  IF r.ok
           THEN /\ binary_lines' = Append(binary_lines, r.val)
                /\ ii' = ii + 1
                /\ UNCHANGED <<apc, error>>
           ELSE /\ error' = r.err
                /\ apc' = "failed"
                /\ UNCHANGED <<binary_lines, ii>>
    /\ UNCHANGED <<src, lines, li, labels, pc, instructions, bins, stdout, cpu_vars, gen_vars>>

\* return binary_lines; bins = assemble(lines)
Return ==
    /\ apc = "pass2"
    /\ ii > Len(instructions)
    /\ bins' = binary_lines
    /\ apc' = "returned"
    /\ UNCHANGED <<src, lines, li, labels, pc, instructions, ii, binary_lines,
                   error, stdout, cpu_vars, gen_vars>>

\* for b in bins: print(b)
MainPrint ==
    /\ apc = "returned"
    /\ Len(stdout) < Len(bins)
    /\ stdout' = Append(stdout, bins[Len(stdout) + 1])
    /\ UNCHANGED <<src, lines, apc, li, labels, pc, instructions, ii, binary_lines,
                   error, bins, cpu_vars, gen_vars>>


(***************************************************************************)
(* The source programs.  A line descriptor says what the author of the     *)
(* program means; Render writes it as text the way the test generators do  *)
(* (f"{op} x{rd}, x{rs1}, x{rs2}", f"sw x{r}, {offset}(x{p})", ...).       *)
(*   k    : "blank" | "comment" | "label" | "instr" | "raw"                *)
(*   name : the label the line declares, <<>> for none                     *)
(*   ins  : [m, fmt, rd, rs1, rs2, imm, target]; target is the label the   *)
(*          operand names, <<>> when the operand is the number imm         *)
(*   sty  : the spelling (separators, register names, radix, trailer)      *)
(*   raw  : the text of a "raw" line, with the defect it has               *)
(***************************************************************************)
NoIns == [m |-> <<>>, fmt |-> "", rd |-> 0, rs1 |-> 0, rs2 |-> 0, imm |-> 0, target |-> <<>>]

Ins(m, fmt, rd, rs1, rs2, imm, target) ==
    [m |-> m, fmt |-> fmt, rd |-> rd, rs1 |-> rs1, rs2 |-> rs2, imm |-> imm,
     target |-> target]

Line(k, name, ins, sty, raw, defect) ==
    [k |-> k, name |-> name, ins |-> ins, sty |-> sty, raw |-> raw, defect |-> defect]

InstrLine(ins, sty) == Line("instr", <<>>, ins, sty, <<>>, "")

AbiName ==
    <<<<"z", "e", "r", "o">>,
      <<"r", "a">>,
      <<"s", "p">>,
      <<"g", "p">>,
      <<"t", "p">>,
      <<"t", "0">>,
      <<"t", "1">>,
      <<"t", "2">>,
      <<"s", "0">>,
      <<"s", "1">>,
      <<"a", "0">>,
      <<"a", "1">>,
      <<"a", "2">>,
      <<"a", "3">>,
      <<"a", "4">>,
      <<"a", "5">>,
      <<"a", "6">>,
      <<"a", "7">>,
      <<"s", "2">>,
      <<"s", "3">>,
      <<"s", "4">>,
      <<"s", "5">>,
      <<"s", "6">>,
      <<"s", "7">>,
      <<"s", "8">>,
      <<"s", "9">>,
      <<"s", "1", "0">>,
      <<"s", "1", "1">>,
      <<"t", "3">>,
      <<"t", "4">>,
      <<"t", "5">>,
      <<"t", "6">>>>

RegText(n, sty) == IF sty = 2 THEN AbiName[n + 1] ELSE <<"x">> \o Dec(n)

ImmText(ins, sty) ==
    IF ins.target # <<>> THEN ins.target
    ELSE IF sty = 2 /\ ins.imm >= 0 THEN Hex(ins.imm)
    ELSE Dec(ins.imm)

RECURSIVE JoinWith(_, _)
JoinWith(parts, sep) ==
    IF Len(parts) <= 1 THEN join(parts)
    ELSE Head(parts) \o sep \o JoinWith(Tail(parts), sep)

Operands(ins, sty) ==
    LET mem == ImmText(ins, sty) \o <<"(">> \o RegText(ins.rs1, sty) \o <<")">>
    IN  CASE ins.fmt = "R" -> <<RegText(ins.rd, sty), RegText(ins.rs1, sty), RegText(ins.rs2, sty)>>
          [] ins.fmt = "I" -> <<RegText(ins.rd, sty), RegText(ins.rs1, sty), ImmText(ins, sty)>>
          [] ins.fmt = "I_load" -> <<RegText(ins.rd, sty), mem>>
          [] ins.fmt = "S" -> <<RegText(ins.rs2, sty), mem>>
          [] ins.fmt = "B" -> <<RegText(ins.rs1, sty), RegText(ins.rs2, sty), ImmText(ins, sty)>>
          [] ins.fmt = "U" -> <<RegText(ins.rd, sty), ImmText(ins, sty)>>
          [] ins.fmt = "J" -> <<RegText(ins.rd, sty), ImmText(ins, sty)>>

RenderIns(ins, sty) ==
    CASE sty = 0 -> ins.m \o <<" ">> \o JoinWith(Operands(ins, sty), <<",", " ">>)
      [] sty = 1 -> ins.m \o <<" ">> \o JoinWith(Operands(ins, sty), <<",">>) \o <<"\n">>
      [] sty = 2 -> ins.m \o <<" ">> \o JoinWith(Operands(ins, sty), <<",", " ">>)
                    \o <<" ", "#", " ", "c", "\n">>
      [] sty = 3 -> <<" ", " ">> \o ins.m \o <<"\t">>
                    \o JoinWith(Operands(ins, sty), <<" ", ",", " ">>) \o <<" ", "\n">>

Render(d) ==
    CASE d.k = "blank"   -> IF d.sty = 0 THEN <<>> ELSE <<" ", "\t", "\n">>
      [] d.k = "comment" -> IF d.sty = 0 THEN <<"#", " ", "c">> ELSE <<" ", "#", "c", ":", "\n">>
      [] d.k = "label"   -> IF d.sty = 0 THEN d.name \o <<":">>
                            ELSE d.name \o <<":", " ", "#", " ", "c", "\n">>
      [] d.k = "instr"   -> (IF d.name = <<>> THEN <<>> ELSE d.name \o <<":", " ">>)
                            \o RenderIns(d.ins, d.sty)
      [] d.k = "raw"     -> d.raw


(***************************************************************************)
(* Bounds and the operand samples of the checked programs.                 *)
(***************************************************************************)
\* longest multi-line program
MaxLines == 4

Mnemonics(fmt) == {d.mnemonic : d \in {e \in Descriptors : e.type = fmt}}

\* every register number in every operand position, the positions distinct
RegTriples == {<<r, (r + 11) % 32, (r + 22) % 32>> : r \in 0..31}

FewTriples == {<<1, 0, 2>>, <<10, 21, 31>>, <<0, 0, 0>>, <<31, 31, 31>>}

Powers(lo, hi) == {Pow2(k) : k \in lo..hi}

\* 12-bit signed immediates: the ends, each single bit, mixed patterns
Imm12 == {-2048, -2047, -1366, -1365, -1, 0, 10, 1365, 2046, 2047}
         \cup Powers(0, 10) \cup {-x : x \in Powers(0, 10)}

\* 20-bit upper immediates
Imm20 == {0, 1048575, 1048574, 74565, 699050, 349525}
         \cup Powers(0, 19) \cup {x - 1 : x \in Powers(2, 19)}

\* even 13-bit branch displacements
Off13 == {-4096, -4094, -2730, 0, 2730, 4092, 4094}
         \cup Powers(1, 11) \cup {-x : x \in Powers(1, 11)}

\* even 21-bit jump displacements
Off21 == {-1048576, -1048574, -699050, 0, 699050, 1048572, 1048574}
         \cup Powers(1, 19) \cup {-x : x \in Powers(1, 19)}

\* immediates outside the field of their format
Wide12 == {2048, 4095, 4096, -2049, -4096, -4097}
Wide13 == {4096, 8190, 8192, -4098, -8192, -8194}
Wide20 == {1048576, -1, -1048576, -1048577}
Wide21 == {1048576, 2097152, -1048578, -2097152, -2097154}

Field(fmt) ==
    CASE fmt \in {"I", "I_load", "S"} -> Imm12
      [] fmt = "U" -> Imm20
      [] fmt = "B" -> Off13
      [] fmt = "J" -> Off21

Ends(fmt) ==
    CASE fmt \in {"I", "I_load", "S"} -> {-2048, 10, 2047}
      [] fmt = "U" -> {0, 74565, 1048575}
      [] fmt = "B" -> {-4096, -8, 4094}
      [] fmt = "J" -> {-1048576, 8, 1048574}

Wide(fmt) ==
    CASE fmt \in {"I", "I_load", "S"} -> Wide12
      [] fmt = "U" -> Wide20
      [] fmt = "B" -> Wide13
      [] fmt = "J" -> Wide21

ImmFormats == {"I", "I_load", "S", "B", "U", "J"}

SingleR ==
    { <<InstrLine(Ins(m, "R", t[1], t[2], t[3], 0, <<>>), sty)>> :
        m \in Mnemonics("R"), t \in RegTriples \cup FewTriples, sty \in 0..3 }

SingleImm(fmt) ==
    { <<InstrLine(Ins(m, fmt, t[1], t[2], t[3], v, <<>>), sty)>> :
        m \in Mnemonics(fmt), t \in FewTriples, v \in Field(fmt), sty \in {0, 2} }
    \cup
    { <<InstrLine(Ins(m, fmt, t[1], t[2], t[3], v, <<>>), sty)>> :
        m \in Mnemonics(fmt), t \in RegTriples, v \in Ends(fmt), sty \in {1, 3} }

SingleWide(fmt) ==
    { <<InstrLine(Ins(m, fmt, 1, 2, 3, v, <<>>), 0)>> :
        m \in Mnemonics(fmt), v \in Wide(fmt) }

\* malformed instruction lines, each with the defect it has ("" where the
\* line lacks an operand and the taxonomy names no kind for that)
RawLines ==
    { Line("raw", <<>>, NoIns, 0, <<"f", "o", "o", " ", "x", "1", ",", " ", "x", "2">>, "UnknownInstruction"),
      Line("raw", <<>>, NoIns, 0, <<"a", "d", "d", " ", "x", "1", ",", " ", "x", "2", ",", " ", "x", "3", "2">>, "UnknownRegister"),
      Line("raw", <<>>, NoIns, 0, <<"s", "w", " ", "q", "0", ",", " ", "0", "(", "x", "1", ")">>, "UnknownRegister"),
      Line("raw", <<>>, NoIns, 0, <<"b", "e", "q", " ", "x", "1", ",", " ", "x", "2", ",", " ", "n", "o", "w", "h", "e", "r", "e">>, "UnresolvedLabel"),
      Line("raw", <<>>, NoIns, 0, <<"a", "d", "d", "i", " ", "x", "1", ",", " ", "x", "0", ",", " ", "1", "z">>, "InvalidImmediate"),
      Line("raw", <<>>, NoIns, 0, <<"l", "u", "i", " ", "x", "1", ",", " ", "0", "1", "2">>, "InvalidImmediate"),
      Line("raw", <<>>, NoIns, 0, <<"l", "w", " ", "x", "1", ",", " ", "4", "[", "x", "2", "]">>, "MalformedMemoryOperand"),
      Line("raw", <<>>, NoIns, 0, <<"s", "w", " ", "x", "1", ",", " ", "4", "(", "x", "2">>, "MalformedMemoryOperand"),
      Line("raw", <<>>, NoIns, 0, <<"l", "w", " ", "x", "1", ",", " ", "4", "(", "(", "x", "2", ")">>, "MalformedMemoryOperand"),
      Line("raw", <<>>, NoIns, 0, <<"l", "w", " ", "x", "1">>, ""),
      Line("raw", <<>>, NoIns, 0, <<"a", "d", "d", " ", "x", "1", ",", " ", "x", "2">>, ""),
      Line("raw", <<>>, NoIns, 0, <<"j", "a", "l", " ", "x", "1">>, "") }

L_loop == <<"l", "o", "o", "p">>
L_end  == <<"e", "n", "d">>
M_add  == <<"a", "d", "d">>
M_addi == <<"a", "d", "d", "i">>
M_bne  == <<"b", "n", "e">>
M_jal  == <<"j", "a", "l">>

\* the lines the multi-line programs are made of
Alphabet ==
    { Line("blank", <<>>, NoIns, 1, <<>>, ""),
      Line("comment", <<>>, NoIns, 1, <<>>, ""),
      Line("label", L_loop, NoIns, 0, <<>>, ""),
      Line("label", L_end, NoIns, 1, <<>>, ""),
      Line("instr", <<>>, Ins(M_add, "R", 2, 2, 1, 0, <<>>), 0, <<>>, ""),
      Line("instr", L_loop, Ins(M_addi, "I", 1, 1, 0, -1, <<>>), 0, <<>>, ""),
      Line("instr", <<>>, Ins(M_bne, "B", 0, 1, 0, 0, L_loop), 0, <<>>, ""),
      Line("instr", <<>>, Ins(M_jal, "J", 0, 0, 0, 0, L_end), 1, <<>>, "") }

MultiLine == UNION { [1..n -> Alphabet] : n \in 0..MaxLines }

Programs ==
    SingleR \cup UNION {SingleImm(f) \cup SingleWide(f) : f \in ImmFormats}
    \cup {<<r>> : r \in RawLines} \cup MultiLine

(***************************************************************************)
(* Specifications.                                                         *)
(***************************************************************************)
Zero32 == <<0, 0>>

NoCall == [op |-> "", rd |-> 0, rs1 |-> 0, rs2 |-> <<>>, imm |-> <<>>]

\* no generator is running
GenIdle ==
    /\ hist = <<>>
    /\ gpc = "idle"
    /\ asm = <<>>
    /\ current_ptr = 0
    /\ gstep = 0
    /\ hw_regs = <<>>

CpuIdle ==
    /\ sim_regs = [r \in 0..31 |-> Zero32]
    /\ sim_mem = <<>>
    /\ call = NoCall
    /\ u_rs1 = Zero32
    /\ u_rs2 = Zero32
    /\ nsteps = 0

InitAsm ==
    /\ src \in Programs
    /\ lines = [k \in 1..Len(src) |-> Render(src[k])]
    /\ apc = "pass1"
    /\ li = 1
    /\ labels = <<>>
    /\ pc = 0
    /\ instructions = <<>>
    /\ ii = 1
    /\ binary_lines = <<>>
    /\ error = NoError
    /\ bins = Unbound
    /\ stdout = <<>>
    /\ CpuIdle
    /\ GenIdle

NextAsm == Pass1Step \/ Pass1Done \/ Pass2Step \/ Return \/ MainPrint

SpecAsm == InitAsm /\ [][NextAsm]_vars


(***************************************************************************)
(* What the program means, read off the line descriptors (not the text).   *)
(***************************************************************************)
Queues(d) == d.k \in {"instr", "raw"}

\* the indices of the lines that hold an instruction, in program order
QueuedIdx == SelectSeq([i \in 1..Len(src) |-> i], LAMBDA i : Queues(src[i]))

\* number of instructions on the lines before line i
QueuedBefore(i) == Cardinality({j \in 1..(i - 1) : j <= Len(src) /\ Queues(src[j])})

\* the lines among the first n that declare label name
DeclLines(name, n) == {i \in 1..n : i <= Len(src) /\ src[i].name = name}

Declared(n) == {src[i].name : i \in {j \in 1..n : j <= Len(src) /\ src[j].name # <<>>}}

SetMax(S) == CHOOSE x \in S : \A y \in S : y <= x

\* the address a label stands for once the first n lines are read
LabelAddr(name, n) == 4 * QueuedBefore(SetMax(DeclLines(name, n)))

\* the value of a string of binary digits
RECURSIVE BitsVal(_)
BitsVal(b) ==
    IF b = <<>> THEN 0
    ELSE 2 * BitsVal(SubSeq(b, 1, Len(b) - 1)) + (IF b[Len(b)] = "1" THEN 1 ELSE 0)

IsWord(w) == Len(w) = 32 /\ \A i \in 1..32 : w[i] \in {"0", "1"}

\* bits hi..lo of word w as a number; bit 31 is the first character
Bits(w, hi, lo) == BitsVal(SubSeq(w, 32 - hi, 32 - lo))

Width(fmt) ==
    CASE fmt \in {"I", "I_load", "S"} -> 12
      [] fmt = "U" -> 20
      [] fmt = "B" -> 13
      [] fmt = "J" -> 21

Lowest(fmt) == IF fmt = "U" THEN 0 ELSE -Pow2(Width(fmt) - 1)

Highest(fmt) ==
    CASE fmt \in {"I", "I_load", "S"} -> 2047
      [] fmt = "U" -> 1048575
      [] fmt = "B" -> 4094
      [] fmt = "J" -> 1048574

\* the immediate a word of the given format carries, as an unsigned number
ImmOf(w, fmt) ==
    CASE fmt \in {"I", "I_load"} -> Bits(w, 31, 20)
      [] fmt = "S" -> Bits(w, 31, 25) * 32 + Bits(w, 11, 7)
      [] fmt = "U" -> Bits(w, 31, 12)
      [] fmt = "B" -> Bits(w, 31, 31) * 4096 + Bits(w, 7, 7) * 2048
                      + Bits(w, 30, 25) * 32 + Bits(w, 11, 8) * 2
      [] fmt = "J" -> Bits(w, 31, 31) * 1048576 + Bits(w, 19, 12) * 4096
                      + Bits(w, 20, 20) * 2048 + Bits(w, 30, 21) * 2

\* the fixed fields of word w are those of the table entry of ins.m
FixedFieldsMatch(w, ins) ==
    LET op == opcodes[ins.m]
    IN  /\ SubSeq(w, 26, 32) = op.opcode
        /\ ins.fmt \notin {"U", "J"} => SubSeq(w, 18, 20) = op.funct3
        /\ ins.fmt = "R" => SubSeq(w, 1, 7) = op.funct7

\* the register fields of word w are the operands of ins
RegFieldsMatch(w, ins) ==
    /\ ins.fmt \in {"R", "I", "I_load", "U", "J"} => Bits(w, 11, 7) = ins.rd
    /\ ins.fmt \in {"R", "I", "I_load", "S", "B"} => Bits(w, 19, 15) = ins.rs1
    /\ ins.fmt \in {"R", "S", "B"} => Bits(w, 24, 20) = ins.rs2

\* ins has a numeric immediate inside the legal range of its format
Legal(ins) ==
    /\ ins.target = <<>>
    /\ ins.fmt = "R" \/ (ins.imm >= Lowest(ins.fmt) /\ ins.imm <= Highest(ins.fmt))

\* the descriptor of the k-th queued instruction
Queued(k) == src[QueuedIdx[k]]

\* the instruction whose encoding raised
Offender == Queued(ii)

Unscrambled == {"R", "I", "I_load", "S", "U"}

AddiWord == <<"0", "0", "0", "0", "0", "0", "0", "0", "1", "0", "1", "0", "0", "0", "0", "0", "0", "0", "0", "0", "0", "0", "0", "0", "1", "0", "0", "1", "0", "0", "1", "1">>

\* C1: every legal instruction of format R, I, I-load, S or U is encoded
\* without error into a 32-bit word whose fields, read by the layout of the
\* format, are the table's opcode/funct3/funct7, the register numbers and the
\* immediate modulo 2^width; `addi x1, x0, 10` gives AddiWord.
RoundTripUnscrambled ==
    /\ \A k \in 1..Len(binary_lines) :
          LET ins == Queued(k).ins
              w   == binary_lines[k]
          IN  (Queued(k).k = "instr" /\ ins.fmt \in Unscrambled /\ Legal(ins)) =>
                 /\ IsWord(w)
                 /\ FixedFieldsMatch(w, ins)
                 /\ RegFieldsMatch(w, ins)
                 /\ ins.fmt # "R" => ImmOf(w, ins.fmt) = ins.imm % Pow2(Width(ins.fmt))
    /\ apc = "failed" =>
          ~(Offender.k = "instr" /\ Offender.ins.fmt \in Unscrambled /\ Legal(Offender.ins))
    /\ (apc = "returned"
        /\ src = <<InstrLine(Ins(M_addi, "I", 1, 0, 2, 10, <<>>), 0)>>) => bins = <<AddiWord>>

RoundTripUnscrambledWitness ==
    /\ apc = "returned"
    /\ Len(src) = 1
    /\ src[1].ins.fmt = "S"
    /\ src[1].ins.imm = -2048
    /\ src[1].ins.rs2 = 31
    /\ src[1].sty = 3
    /\ ImmOf(bins[1], "S") = 2048

\* C2: a B-type (J-type) instruction with an even numeric displacement d in
\* -4096..4094 (-1048576..1048574) is encoded into the scrambled layout of
\* d mod 2^13 (d mod 2^21), and `bne x1, x0, loop` two instructions after
\* `loop:` carries -8.
DisplacementRoundTrip ==
    /\ \A k \in 1..Len(binary_lines) :
          LET ins == Queued(k).ins
              w   == binary_lines[k]
          IN  (Queued(k).k = "instr" /\ ins.fmt \in {"B", "J"} /\ Legal(ins)
               /\ ins.imm % 2 = 0) =>
                 /\ IsWord(w)
                 /\ FixedFieldsMatch(w, ins)
                 /\ RegFieldsMatch(w, ins)
                 /\ ImmOf(w, ins.fmt) = ins.imm % Pow2(Width(ins.fmt))
    /\ apc = "failed" =>
          ~(Offender.k = "instr" /\ Offender.ins.fmt \in {"B", "J"} /\ Legal(Offender.ins))
    /\ (apc = "returned" /\ Len(src) = 4
        /\ src[1].k = "label" /\ src[1].name = L_loop
        /\ src[2].k = "instr" /\ src[2].name = <<>> /\ src[2].ins.fmt = "R"
        /\ src[3].k = "instr" /\ src[3].name = <<>> /\ src[3].ins.fmt = "R"
        /\ src[4].k = "instr" /\ src[4].ins.m = M_bne /\ src[4].ins.target = L_loop)
       => (IsWord(bins[3]) /\ ImmOf(bins[3], "B") = 8192 - 8
           /\ Bits(bins[3], 19, 15) = 1 /\ Bits(bins[3], 24, 20) = 0)

DisplacementRoundTripWitness ==
    /\ apc = "returned"
    /\ Len(src) = 4
    /\ src[1].k = "label" /\ src[1].name = L_loop
    /\ src[2].k = "instr" /\ src[2].name = <<>> /\ src[2].ins.fmt = "R"
    /\ src[3].k = "instr" /\ src[3].name = <<>> /\ src[3].ins.fmt = "R"
    /\ src[4].k = "instr" /\ src[4].ins.m = M_bne /\ src[4].ins.target = L_loop
    /\ ImmOf(bins[3], "B") = 8192 - 8


\* C3: every entry of the list assemble returns, whatever the immediates, is
\* a string of exactly 32 characters, each '0' or '1'.
EveryWordIs32Bits ==
    bins # Unbound => \A k \in 1..Len(bins) : IsWord(bins[k])

\* ins has a numeric immediate that is the least or the greatest of its width
Boundary(ins) ==
    /\ ins.fmt # "R"
    /\ ins.target = <<>>
    /\ ins.imm \in {Lowest(ins.fmt), Highest(ins.fmt)}

\* C4: the least and the greatest value of each immediate width are encoded
\* without error, the field holding v for v >= 0 and 2^width + v for v < 0.
BoundaryImmediates ==
    /\ \A k \in 1..Len(binary_lines) :
          LET ins == Queued(k).ins
              w   == binary_lines[k]
          IN  (Queued(k).k = "instr" /\ Boundary(ins)) =>
                 /\ IsWord(w)
                 /\ ImmOf(w, ins.fmt) =
                       IF ins.imm < 0 THEN Pow2(Width(ins.fmt)) + ins.imm ELSE ins.imm
    /\ apc = "failed" => ~(Offender.k = "instr" /\ Boundary(Offender.ins))

BoundaryImmediatesWitness ==
    /\ apc = "returned"
    /\ Len(src) = 1
    /\ src[1].ins.fmt = "J"
    /\ src[1].ins.imm = -1048576
    /\ ImmOf(bins[1], "J") = 1048576

\* C5: in pass 1 the k-th queued instruction has pc 4k, pc is 4 times the
\* number of queued instructions, only instruction lines queue anything, and
\* every label maps to 4 times the number of instructions queued before its
\* line, which for `name: instr` is the pc of that very instruction.
Pass1Addresses ==
    /\ \A k \in 1..Len(instructions) : instructions[k][1] = 4 * (k - 1)
    /\ pc = 4 * Len(instructions)
    /\ Len(instructions) = QueuedBefore(li)
    /\ DOMAIN labels = Declared(li - 1)
    /\ \A n \in DOMAIN labels :
          /\ labels[n] = LabelAddr(n, li - 1)
          /\ labels[n] >= 0
          /\ labels[n] % 4 = 0
          /\ LET i == SetMax(DeclLines(n, li - 1))
             IN  src[i].k = "instr" =>
                    instructions[QueuedBefore(i) + 1][1] = labels[n]

Pass1AddressesWitness ==
    /\ Len(src) = 4
    /\ li = 5
    /\ src[1].k = "blank"
    /\ src[2].k = "instr" /\ src[2].name = <<>>
    /\ src[3].k = "label" /\ src[3].name = L_end
    /\ src[4].k = "instr" /\ src[4].name = L_loop
    /\ labels[L_end] = 4
    /\ labels[L_loop] = 4
    /\ instructions[2][1] = 4

\* the displacement the k-th queued instruction must carry for its label
LabelDisp(k) == LabelAddr(Queued(k).ins.target, Len(src)) - 4 * (k - 1)

RefersToLabel(d) ==
    d.k = "instr" /\ d.ins.target # <<>> /\ d.ins.target \in Declared(Len(src))

\* C6: a label operand resolves to label_pc - pc whether the label is
\* declared before or after the reference: encoding starts only when pass 1
\* has read every line, with the label table of the whole program.
LabelResolution ==
    /\ apc # "pass1" =>
          /\ li > Len(lines)
          /\ DOMAIN labels = Declared(Len(src))
          /\ \A n \in DOMAIN labels : labels[n] = LabelAddr(n, Len(src))
    /\ binary_lines # <<>> => apc # "pass1"
    /\ \A k \in 1..Len(binary_lines) :
          RefersToLabel(Queued(k)) =>
             /\ IsWord(binary_lines[k])
             /\ ImmOf(binary_lines[k], Queued(k).ins.fmt)
                   = LabelDisp(k) % Pow2(Width(Queued(k).ins.fmt))
    /\ apc = "failed" => ~RefersToLabel(Offender)

\* a forward and a backward reference in one program
LabelResolutionWitness ==
    /\ apc = "returned"
    /\ Len(src) = 4
    /\ src[1].k = "instr" /\ src[1].ins.target = L_end
    /\ src[2].k = "label" /\ src[2].name = L_loop
    /\ src[3].k = "label" /\ src[3].name = L_end
    /\ src[4].k = "instr" /\ src[4].ins.target = L_loop
    /\ ImmOf(bins[1], "J") = 4
    /\ ImmOf(bins[2], "B") = 0

InstrCount == QueuedBefore(Len(src) + 1)

\* C7: when an instruction fails to encode, assemble yields no list and
\* __main__ prints nothing; what is returned and printed is the full image.
AllOrNothing ==
    /\ error # NoError <=> apc = "failed"
    /\ apc = "failed" => bins = Unbound /\ stdout = <<>>
    /\ bins # Unbound =>
          /\ error = NoError
          /\ Len(bins) = InstrCount
          /\ bins = binary_lines
    /\ stdout # <<>> =>
          /\ bins # Unbound
          /\ stdout = SubSeq(bins, 1, Len(stdout))

\* the third instruction fails after two words were built
AllOrNothingWitness ==
    /\ apc = "failed"
    /\ Len(binary_lines) = 2
    /\ ii = 3
    /\ bins = Unbound
    /\ stdout = <<>>

Taxonomy == {"UnknownInstruction", "UnknownRegister", "UnresolvedLabel",
             "InvalidImmediate", "MalformedMemoryOperand"}

\* the error kind of the taxonomy an exception stands for
Kind(e) ==
    CASE e.exc = "ValueError" /\ e.msg = "Unknown instruction" -> "UnknownInstruction"
      [] e.exc = "ValueError" /\ e.msg = "Unknown register" -> "UnknownRegister"
      [] e.exc = "ValueError" /\ e.msg = "Invalid immediate" -> "InvalidImmediate"
      [] e.exc = "ValueError" /\ e.msg = "Invalid memory operand" -> "MalformedMemoryOperand"
      [] OTHER -> e.exc

\* the defect of a line: what a raw line is marked with; for a generated
\* instruction, the label it names and no line declares
Defect(d) ==
    IF d.k = "raw" THEN d.defect
    ELSE IF d.ins.target # <<>> /\ d.ins.target \notin Declared(Len(src))
    THEN "UnresolvedLabel" ELSE ""

\* C8: every failing encode fails with one of the five kinds of the
\* taxonomy, the one the defect of the line selects, and names a token.
ErrorTaxonomy ==
    apc = "failed" =>
       /\ Kind(error) \in Taxonomy
       /\ Defect(Offender) # "" => Kind(error) = Defect(Offender)
       /\ error.token # <<>>


(***************************************************************************)
(* The reference CPU.  A Python int is the pair <<hi, lo>> of value        *)
(* hi * 65536 + lo, lo in 0..65535, hi any integer; the small ints of the  *)
(* call (register numbers, immediates) are plain integers.  An optional    *)
(* argument is <<>> for None and <<v>> for the value v.                    *)
(***************************************************************************)
Big(n) == <<n \div 65536, n % 65536>>

BigAdd(a, b) ==
    LET lo == a[2] + b[2]
    IN  <<a[1] + b[1] + (lo \div 65536), lo % 65536>>

BigSub(a, b) ==
    LET lo == a[2] - b[2]
    IN  <<a[1] - b[1] + (lo \div 65536), lo % 65536>>

BigLess(a, b) == a[1] < b[1] \/ (a[1] = b[1] /\ a[2] < b[2])

\* x & y and x | y for 0 <= x, y < 65536
RECURSIVE And16(_, _)
And16(x, y) ==
    IF x = 0 \/ y = 0 THEN 0
    ELSE 2 * And16(x \div 2, y \div 2) + (x % 2) * (y % 2)

RECURSIVE Or16(_, _)
Or16(x, y) ==
    IF x = 0 THEN y
    ELSE IF y = 0 THEN x
    ELSE 2 * Or16(x \div 2, y \div 2) + (IF (x % 2) + (y % 2) > 0 THEN 1 ELSE 0)

\* the value as it is, without the mask
_to_unsigned_32_wide(val) == val

\* val & 0xFFFFFFFF
_to_unsigned_32(val) == <<val[1] % 65536, val[2]>>

\* the masked value without the sign correction
_to_signed_32_raw(val) == <<val[1] % 65536, val[2]>>

_to_signed_32(val) ==
    LET v == <<val[1] % 65536, val[2]>>
    IN  IF v[1] >= 32768 THEN <<v[1] - 65536, v[2]>> ELSE v

\* on a plain integer: the 12-bit field as a signed number
_sign_extend_12(imm12) ==
    LET f == imm12 % 4096
    IN  IF f >= 2048 THEN f - 4096 ELSE f

\* a register write without the 32-bit mask
set_reg_nomask(rf, idx, val) == [rf EXCEPT ![idx] = val]

\* a register file whose register 0 is hardwired to zero
set_reg_x0(rf, idx, val) ==
    IF idx = 0 THEN rf ELSE [rf EXCEPT ![idx] = <<val[1] % 65536, val[2]>>]

set_reg(rf, idx, val) == [rf EXCEPT ![idx] = _to_unsigned_32(val)]

get_reg(rf, idx) == rf[idx]

\* an access at the byte address itself
Aligned_exact(addr) == addr

\* (addr // 4) * 4
Aligned(addr) == <<addr[1], (addr[2] \div 4) * 4>>

\* a store that replaces the whole map by the one word written
store_word_only(mem, addr, val) == Put(<<>>, Aligned(addr), _to_unsigned_32(val))

store_word(mem, addr, val) == Put(mem, Aligned(addr), _to_unsigned_32(val))

load_word(mem, addr) ==
    IF Aligned(addr) \in DOMAIN mem THEN mem[Aligned(addr)] ELSE Zero32

\* the immediate as execute adds it: s_imm = imm, the argument itself, for
\* every operation but lui (and 0 when no immediate is passed)
SImm(imm) == IF imm # <<>> THEN Big(imm[1]) ELSE Zero32

\* a lui that leaves the 20 bits in the low end of the register
LuiValue_noshift(imm) == <<(imm % 1048576) \div 65536, (imm % 1048576) % 65536>>

\* (imm & 0xFFFFF) << 12
LuiValue(imm) == <<(imm % 1048576) \div 16, ((imm % 1048576) % 16) * 4096>>

\* ReferenceCPU.execute on the state [regs, mem]; the result is the new state
execute(cpu, op, rd, rs1, rs2, imm) ==
    LET u1    == get_reg(cpu.regs, rs1)
        u2    == IF rs2 # <<>> THEN get_reg(cpu.regs, rs2[1]) ELSE Zero32
        s1    == _to_signed_32(u1)
        s2    == _to_signed_32(u2)
        s_imm == SImm(imm)
        addr  == _to_unsigned_32(BigAdd(u1, s_imm))
        res   == CASE op = "add"  -> BigAdd(u1, u2)
                   [] op = "sub"  -> BigSub(u1, u2)
                   [] op = "and"  -> <<And16(u1[1], u2[1]), And16(u1[2], u2[2])>>
                   [] op = "or"   -> <<Or16(u1[1], u2[1]), Or16(u1[2], u2[2])>>
                   [] op = "slt"  -> IF BigLess(s1, s2) THEN Big(1) ELSE Big(0)
                   [] op = "addi" -> BigAdd(u1, s_imm)
                   [] op = "lui"  -> LuiValue(imm[1])
                   [] op = "lw"   -> load_word(cpu.mem, addr)
                   [] OTHER       -> Zero32
    IN  IF op = "sw"
        THEN [regs |-> cpu.regs, mem |-> store_word(cpu.mem, addr, u2)]
        ELSE [regs |-> set_reg(cpu.regs, rd, res), mem |-> cpu.mem]


(***************************************************************************)
(* The reference CPU as a state machine: a test generator calls execute.   *)
(***************************************************************************)
\* execute calls made in one run
MaxCalls == 1

\* the register operands <<rd, rs1, rs2>> of the calls: rd apart from, equal
\* to one of, and equal to both of the sources; register 0 as a destination
AluRegs == {<<0, 1, 2>>, <<1, 1, 2>>, <<2, 1, 2>>, <<1, 2, 1>>, <<2, 2, 2>>, <<1, 0, 2>>}

\* <<rd, rs1>> of addi and lw, <<rs1, rs2>> of sw
RegPairs == {<<1, 0>>, <<1, 1>>, <<2, 1>>, <<0, 2>>}

MemRegs == {<<0, 1>>, <<1, 2>>, <<2, 2>>}

\* register contents: the edge-case patterns of gen_alu_chaos, which loads
\* each into a register with lui and addi before the operation under test
Patterns ==
    { <<0, 0>>, <<0, 1>>, <<65535, 65535>>, <<43690, 43690>>, <<21845, 21845>>,
      <<32767, 65535>>, <<32768, 0>>, <<0, 12345>>, <<65535, 55660>> }

CallImm12 == {-2048, -1, 0, 4, 6, 7, 2047}

CallImm20 == {0, 1, 524288, 1048575}

InitCpu ==
    /\ \E a \in Patterns, b \in Patterns :
          sim_regs = [r \in 0..31 |-> IF r = 1 THEN a ELSE IF r = 2 THEN b ELSE Zero32]
    /\ sim_mem = <<>>
    /\ call = NoCall
    /\ u_rs1 = Zero32
    /\ u_rs2 = Zero32
    /\ nsteps = 0
    /\ src = <<>>
    /\ lines = <<>>
    /\ apc = "idle"
    /\ li = 1
    /\ labels = <<>>
    /\ pc = 0
    /\ instructions = <<>>
    /\ ii = 1
    /\ binary_lines = <<>>
    /\ error = NoError
    /\ bins = Unbound
    /\ stdout = <<>>
    /\ GenIdle

\* the state a call sim.execute(op, rd, rs1, rs2, imm) leaves
After(op, rd, rs1, rs2, imm) ==
    LET cpu == execute([regs |-> sim_regs, mem |-> sim_mem], op, rd, rs1, rs2, imm)
    IN  [regs  |-> cpu.regs,
         mem   |-> cpu.mem,
         call  |-> [op |-> op, rd |-> rd, rs1 |-> rs1, rs2 |-> rs2, imm |-> imm],
         u_rs1 |-> get_reg(sim_regs, rs1),
         u_rs2 |-> IF rs2 # <<>> THEN get_reg(sim_regs, rs2[1]) ELSE Zero32]

\* sim.execute(op, rd, rs1, rs2) of gen_alu_chaos
ExecAlu ==
    /\ nsteps < MaxCalls
    /\ \E op \in {"add", "sub", "and", "or", "slt"}, t \in AluRegs :
          LET n == After(op, t[1], t[2], <<t[3]>>, <<>>)
          IN  /\ sim_regs' = n.regs
              /\ sim_mem' = n.mem
              /\ call' = n.call
              /\ u_rs1' = n.u_rs1
              /\ u_rs2' = n.u_rs2
    /\ nsteps' = nsteps + 1
    /\ UNCHANGED <<asm_vars, gen_vars>>

\* sim.execute('addi', rd, rs1, imm=v)
ExecAddi ==
    /\ nsteps < MaxCalls
    /\ \E t \in RegPairs, v \in CallImm12 :
          LET n == After("addi", t[1], t[2], <<>>, <<v>>)
          IN  /\ sim_regs' = n.regs
              /\ sim_mem' = n.mem
              /\ call' = n.call
              /\ u_rs1' = n.u_rs1
              /\ u_rs2' = n.u_rs2
    /\ nsteps' = nsteps + 1
    /\ UNCHANGED <<asm_vars, gen_vars>>

\* sim.execute('lui', rd, 0, imm=upper_20)
ExecLui ==
    /\ nsteps < MaxCalls
    /\ \E rd \in {0, 1, 2}, v \in CallImm20 :
          LET n == After("lui", rd, 0, <<>>, <<v>>)
          IN  /\ sim_regs' = n.regs
              /\ sim_mem' = n.mem
              /\ call' = n.call
              /\ u_rs1' = n.u_rs1
              /\ u_rs2' = n.u_rs2
    /\ nsteps' = nsteps + 1
    /\ UNCHANGED <<asm_vars, gen_vars>>

\* sim.execute('sw', 0, ptr_reg, data_reg, imm=offset)
ExecSw ==
    /\ nsteps < MaxCalls
    /\ \E t \in MemRegs, v \in CallImm12 :
          LET n == After("sw", 0, t[1], <<t[2]>>, <<v>>)
          IN  /\ sim_regs' = n.regs
              /\ sim_mem' = n.mem
              /\ call' = n.call
              /\ u_rs1' = n.u_rs1
              /\ u_rs2' = n.u_rs2
    /\ nsteps' = nsteps + 1
    /\ UNCHANGED <<asm_vars, gen_vars>>

\* sim.execute('lw', dest, ptr_reg, imm=offset)
ExecLw ==
    /\ nsteps < MaxCalls
    /\ \E t \in RegPairs, v \in CallImm12 :
          LET n == After("lw", t[1], t[2], <<>>, <<v>>)
          IN  /\ sim_regs' = n.regs
              /\ sim_mem' = n.mem
              /\ call' = n.call
              /\ u_rs1' = n.u_rs1
              /\ u_rs2' = n.u_rs2
    /\ nsteps' = nsteps + 1
    /\ UNCHANGED <<asm_vars, gen_vars>>

NextCpu == ExecAlu \/ ExecAddi \/ ExecLui \/ ExecSw \/ ExecLw

SpecCpu == InitCpu /\ [][NextCpu]_vars

\* a register value is an unsigned 32-bit number
IsU32(v) == v[1] \in 0..65535 /\ v[2] \in 0..65535

\* hi * 65536 + lo = k * 2^32
IsMultipleOf2to32(hi, lo, k) == lo % 65536 = 0 /\ hi + (lo \div 65536) = k * 65536

\* C9: add leaves regs[rd] = (a + b) mod 2^32 and sub leaves
\* regs[rd] = (a - b) mod 2^32, for the operand values a and b read by the
\* call, also when rd is rs1 or rs2: the result r is in 0..2^32-1 and
\* a + b - r is 0 or 2^32 (a - b - r is 0 or -2^32).
AddSubWrap ==
    LET r == sim_regs[call.rd]
        a == u_rs1
        b == u_rs2
    IN  /\ call.op = "add" =>
              /\ IsU32(r)
              /\ \E k \in {0, 1} :
                    IsMultipleOf2to32(a[1] + b[1] - r[1], a[2] + b[2] - r[2], k)
        /\ call.op = "sub" =>
              /\ IsU32(r)
              /\ \E k \in {0, -1} :
                    IsMultipleOf2to32(a[1] - b[1] - r[1], a[2] - b[2] - r[2], k)

\* an add that wraps, with rd = rs1, and the operands as the call read them
AddSubWrapWitness ==
    /\ call.op = "add"
    /\ call.rd = 1 /\ call.rs1 = 1 /\ call.rs2 = <<2>>
    /\ u_rs1 = <<65535, 65535>>
    /\ u_rs2 = <<32768, 0>>
    /\ sim_regs[1] = <<32767, 65535>>

\* v, an unsigned 32-bit number, has its sign bit set
Negative(v) == v[1] >= 32768

\* a < b as signed 32-bit two's-complement numbers
SignedLess(a, b) ==
    IF Negative(a) # Negative(b) THEN Negative(a)
    ELSE a[1] < b[1] \/ (a[1] = b[1] /\ a[2] < b[2])

\* C10: slt writes 1 to rd exactly when regs[rs1] is less than regs[rs2] as
\* signed 32-bit numbers, and 0 otherwise; slt(0x80000000, 0) = 1 and
\* slt(1, 0xFFFFFFFF) = 0.
SltSigned ==
    call.op = "slt" =>
        /\ sim_regs[call.rd] = IF SignedLess(u_rs1, u_rs2) THEN <<0, 1>> ELSE <<0, 0>>
        /\ (u_rs1 = <<32768, 0>> /\ u_rs2 = <<0, 0>>) => sim_regs[call.rd] = <<0, 1>>
        /\ (u_rs1 = <<0, 1>> /\ u_rs2 = <<65535, 65535>>) => sim_regs[call.rd] = <<0, 0>>

SltSignedWitness ==
    /\ call.op = "slt"
    /\ call.rd = 0 /\ call.rs1 = 1 /\ call.rs2 = <<2>>
    /\ u_rs1 = <<32768, 0>>
    /\ u_rs2 = <<0, 0>>
    /\ sim_regs[0] = <<0, 1>>


(***************************************************************************)
(* A free run: any sequence of execute calls on a fresh ReferenceCPU.      *)
(***************************************************************************)
\* execute calls made in a free run
MaxRun == 4

\* the assembler is not running
AsmIdle ==
    /\ src = <<>>
    /\ lines = <<>>
    /\ apc = "idle"
    /\ li = 1
    /\ labels = <<>>
    /\ pc = 0
    /\ instructions = <<>>
    /\ ii = 1
    /\ binary_lines = <<>>
    /\ error = NoError
    /\ bins = Unbound
    /\ stdout = <<>>

\* the calls <<op, rd, rs1, rs2, imm>> of a free run: immediates in the
\* signed form, in the raw 12-bit form and outside 12 bits; lui arguments
\* outside 20 bits; addresses 4..7 of one word and addresses that wrap;
\* register 0 as a destination and as a source
RunCalls ==
    { <<"addi", 1, 0, <<>>, <<-1>>>>,
      <<"addi", 1, 0, <<>>, <<4095>>>>,
      <<"addi", 0, 0, <<>>, <<6>>>>,
      <<"addi", 9, 9, <<>>, <<0>>>>,
      <<"lui", 9, 0, <<>>, <<1>>>>,
      <<"lui", 1, 1, <<>>, <<-1048575>>>>,
      <<"sw", 1, 2, <<1>>, <<6>>>>,
      <<"sw", 0, 1, <<1>>, <<-5000>>>>,
      <<"lw", 3, 2, <<>>, <<4>>>>,
      <<"lw", 3, 2, <<>>, <<7>>>>,
      <<"add", 0, 1, <<9>>, <<>>>>,
      <<"slt", 3, 1, <<0>>, <<>>>>,
      <<"and", 3, 1, <<9>>, <<>>>>,
      <<"or", 3, 1, <<9>>, <<>>>> }

\* sim = ReferenceCPU()
InitRun ==
    /\ CpuIdle
    /\ AsmIdle
    /\ hist = <<>>
    /\ gpc = "free"
    /\ asm = <<>>
    /\ current_ptr = 0
    /\ gstep = 0
    /\ hw_regs = <<>>

\* sim.execute(op, rd, rs1, rs2, imm), any supported operation
Execute ==
    /\ gpc = "free"
    /\ Len(hist) < MaxRun
    /\ \E c \in RunCalls :
          LET n == After(c[1], c[2], c[3], c[4], c[5])
          IN  /\ sim_regs' = n.regs
              /\ sim_mem' = n.mem
              /\ call' = n.call
              /\ u_rs1' = n.u_rs1
              /\ u_rs2' = n.u_rs2
              /\ hist' = Append(hist, [op |-> c[1], rd |-> c[2], rs1 |-> c[3],
                                       rs2 |-> c[4], imm |-> c[5],
                                       u_rs1 |-> n.u_rs1, u_rs2 |-> n.u_rs2,
                                       res |-> n.regs[c[2]]])
    /\ nsteps' = nsteps + 1
    /\ UNCHANGED <<asm_vars, gpc, asm, current_ptr, gstep, hw_regs>>

NextRun == Execute

SpecRun == InitRun /\ [][NextRun]_vars

\* the 12-bit field f as a signed number
sext12(f) == IF f >= 2048 THEN f - 4096 ELSE f

\* hi * 65536 + lo = d (mod 2^32), for a small integer d
CongruentTo(hi, lo, d) ==
    \E k \in {-1, 0, 1} : IsMultipleOf2to32(hi, lo - d, k)

\* C11: execute('addi', rd, rs1, imm=i), with i a signed value in
\* -2048..2047 or the raw field in 0..4095, leaves
\* regs[rd] = (regs[rs1] + sext12(i mod 4096)) mod 2^32.
AddiSignExtends ==
    \A k \in 1..Len(hist) :
        LET c == hist[k]
        IN  (c.op = "addi" /\ c.imm[1] \in -2048..4095) =>
                /\ IsU32(c.res)
                /\ CongruentTo(c.res[1] - c.u_rs1[1], c.res[2] - c.u_rs1[2],
                               sext12(c.imm[1] % 4096))

\* C12: execute('lui', rd, rs1, imm=i) leaves regs[rd] = (i mod 2^20) * 4096
\* whatever regs[rs1] holds, and lui 9 with 1 followed by addi 9, 9, 0
\* leaves register 9 = 4096.
LuiPacks ==
    \A k \in 1..Len(hist) :
        LET c == hist[k]
        IN  /\ c.op = "lui" =>
                /\ IsU32(c.res)
                /\ c.res[2] % 4096 = 0
                /\ c.res[1] * 16 + (c.res[2] \div 4096) = c.imm[1] % 1048576
            /\ (k > 1 /\ c.op = "addi" /\ c.rd = 9 /\ c.rs1 = 9 /\ c.imm = <<0>>
                /\ hist[k - 1].op = "lui" /\ hist[k - 1].rd = 9
                /\ hist[k - 1].imm = <<1>>) => c.res = <<0, 4096>>

\* lui with a negative argument outside 20 bits and a source register
\* holding 0xFFFFFFFF
LuiPacksWitness ==
    /\ Len(hist) = 2
    /\ hist[1].op = "addi" /\ hist[1].res = <<65535, 65535>>
    /\ hist[2].op = "lui" /\ hist[2].rs1 = 1 /\ hist[2].imm = <<-1048575>>
    /\ hist[2].u_rs1 = <<65535, 65535>>
    /\ sim_regs[1] = <<0, 4096>>

\* the calls of the run that access memory
MemCalls == {k \in 1..Len(hist) : hist[k].op \in {"sw", "lw"}}

\* the effective address (regs[rs1] + imm) mod 2^32 of call c, as <<hi, lo>>
EffAddr(c) ==
    LET lo == c.u_rs1[2] + c.imm[1]
    IN  <<(c.u_rs1[1] + (lo \div 65536)) % 65536, lo % 65536>>

\* the effective address div 4
WordOf(c) == <<EffAddr(c)[1], EffAddr(c)[2] \div 4>>

\* the stores before call k to the word call k accesses
StoresBefore(k) ==
    {j \in 1..(k - 1) : hist[j].op = "sw" /\ WordOf(hist[j]) = WordOf(hist[k])}

KeyOfCall == <<WordOf([u_rs1 |-> u_rs1', imm |-> call'.imm])[1],
               WordOf([u_rs1 |-> u_rs1', imm |-> call'.imm])[2] * 4>>

\* the memory words that differ, or exist on one side only, across the step
ChangedWords ==
    {a \in DOMAIN sim_mem \cup DOMAIN sim_mem' :
        ~(a \in DOMAIN sim_mem /\ a \in DOMAIN sim_mem' /\ sim_mem'[a] = sim_mem[a])}

\* what one execute call may change
FrameOfCall ==
    IF call'.op = "sw"
    THEN /\ sim_regs' = sim_regs
         /\ ChangedWords \subseteq {KeyOfCall}
    ELSE /\ \A r \in 0..31 : r # call'.rd => sim_regs'[r] = sim_regs[r]
         /\ sim_mem' = sim_mem

\* C14: sw leaves all 32 registers unchanged, the one named by its rd
\* argument included, and changes at most the memory word at the aligned
\* effective address; every other operation changes at most regs[rd] and
\* leaves the memory map unchanged, a lw of a never-written address adding
\* no entry.
ExecuteFrame == [][FrameOfCall]_vars

\* a sw called with rd = 1 while register 1 holds 0xFFFFFFFF, with another
\* word already in memory
ExecuteFrameWitness ==
    /\ call.op = "sw" /\ call.rd = 1
    /\ sim_regs[1] = <<65535, 65535>>
    /\ Cardinality(DOMAIN sim_mem) = 2
    /\ <<0, 4>> \in DOMAIN sim_mem

\* C15: after any sequence of execute calls on a fresh ReferenceCPU,
\* whatever integers are passed as immediates, every register is in
\* 0..2^32-1, every memory key is a multiple of 4 in 0..2^32-4 and every
\* stored value is in 0..2^32-1.
StateInvariant ==
    /\ \A r \in 0..31 : IsU32(sim_regs[r])
    /\ \A a \in DOMAIN sim_mem :
          /\ IsU32(a)
          /\ a[2] % 4 = 0
          /\ IsU32(sim_mem[a])

\* a store of 0xFFFFFFFF with the immediate -5000, whose address wraps to the
\* top of the address space
StateInvariantWitness ==
    /\ call.op = "sw" /\ call.imm = <<-5000>>
    /\ \E k \in 1..Len(hist) : hist[k].op = "addi" /\ hist[k].imm = <<-1>>
    /\ \E a \in DOMAIN sim_mem : a[1] = 65535 /\ sim_mem[a] = <<65535, 65535>>

\* the calls before call k that wrote register 0
WritesOfX0Before(k) == {j \in 1..(k - 1) : hist[j].rd = 0 /\ hist[j].op # "sw"}

\* what register 0 holds when call k reads it
X0Before(k) ==
    IF WritesOfX0Before(k) = {} THEN <<0, 0>>
    ELSE hist[SetMax(WritesOfX0Before(k))].res

\* C17: register 0 is an ordinary register of the reference model: a call
\* with rd = 0 that writes back stores its 32-bit result in regs[0], and
\* every later call naming register 0 as rs1 or rs2 reads that value.
X0Writable ==
    \A k \in 1..Len(hist) :
        LET c == hist[k]
        IN  /\ (c.rd = 0 /\ c.op = "addi") =>
                 /\ IsU32(c.res)
                 /\ CongruentTo(c.res[1] - c.u_rs1[1], c.res[2] - c.u_rs1[2], c.imm[1])
            /\ (c.rd = 0 /\ c.op = "add") =>
                 /\ IsU32(c.res)
                 /\ CongruentTo(c.res[1] - c.u_rs1[1] - c.u_rs2[1],
                                c.res[2] - c.u_rs1[2] - c.u_rs2[2], 0)
            /\ (k = Len(hist) /\ c.rd = 0 /\ c.op # "sw") => sim_regs[0] = c.res
            /\ c.rs1 = 0 => c.u_rs1 = X0Before(k)
            /\ c.rs2 = <<0>> => c.u_rs2 = X0Before(k)

\* addi 0, 0, 6 twice: the second call reads 6 from register 0 and leaves 12
X0WritableWitness ==
    /\ Len(hist) = 2
    /\ hist[1].op = "addi" /\ hist[1].rd = 0 /\ hist[1].res = <<0, 6>>
    /\ hist[2].op = "addi" /\ hist[2].rs1 = 0 /\ hist[2].u_rs1 = <<0, 6>>
    /\ sim_regs[0] = <<0, 12>>


(***************************************************************************)
(* gen_memory_walk: a pointer in x1 moves around memory while words are    *)
(* stored and loaded relative to it.                                       *)
(***************************************************************************)
\* iterations of the walk's loop (range(40) in the generator)
MaxWalk == 6

\* one element of the generator's asm list
AsmLine(op, rd, rs1, rs2, imm) ==
    [op |-> op, rd |-> rd, rs1 |-> rs1, rs2 |-> rs2, imm |-> imm, target |-> <<>>]

\* random.randint(-50, 50) * 4
MoveAmts == {-200, 200}

\* random.randint(-100, 100) * 4
Offsets == {-400, 400}

\* random_imm12()
WalkVals == {-1}

\* random.randint(3, 31)
Dests == {3}

\* the walk moves wherever it is asked to
MoveOk_always(ptr, move_amt) == TRUE

\* 0 <= current_ptr + move_amt < 2000
MoveOk(ptr, move_amt) == 0 <= ptr + move_amt /\ ptr + move_amt < 2000

\* addr = (current_ptr + offset) & 0xFFFFFFFF; 0 <= addr < 2040
AddrOk(ptr, offset) ==
    LET addr == _to_unsigned_32(Big(ptr + offset))
    IN  addr[1] = 0 /\ addr[2] < 2040

\* sim = ReferenceCPU(); asm = []
InitWalk ==
    /\ CpuIdle
    /\ AsmIdle
    /\ hist = <<>>
    /\ gpc = "walk_start"
    /\ asm = <<>>
    /\ current_ptr = 0
    /\ gstep = 0
    /\ hw_regs = <<>>

\* current_ptr = 1000; addi x1, x0, 1000
WalkStart ==
    /\ gpc = "walk_start"
    /\ LET n == After("addi", 1, 0, <<>>, <<1000>>)
       IN  /\ sim_regs' = n.regs
           /\ sim_mem' = n.mem
           /\ call' = n.call
           /\ u_rs1' = n.u_rs1
           /\ u_rs2' = n.u_rs2
    /\ nsteps' = nsteps + 1
    /\ current_ptr' = 1000
    /\ asm' = Append(asm, AsmLine("addi", 1, 0, <<>>, <<1000>>))
    /\ gpc' = "walk"
    /\ UNCHANGED <<asm_vars, hist, gstep, hw_regs>>

\* action == 'move'
WalkMove ==
    /\ gpc = "walk"
    /\ gstep < MaxWalk
    /\ \E move_amt \in MoveAmts :
          IF MoveOk(current_ptr, move_amt)
          THEN LET n == After("addi", 1, 1, <<>>, <<move_amt>>)
               IN  /\ sim_regs' = n.regs
                   /\ sim_mem' = n.mem
                   /\ call' = n.call
                   /\ u_rs1' = n.u_rs1
                   /\ u_rs2' = n.u_rs2
                   /\ nsteps' = nsteps + 1
                   /\ current_ptr' = current_ptr + move_amt
                   /\ asm' = Append(asm, AsmLine("addi", 1, 1, <<>>, <<move_amt>>))
          ELSE UNCHANGED <<sim_regs, sim_mem, call, u_rs1, u_rs2, nsteps,
                           current_ptr, asm>>
    /\ gstep' = gstep + 1
    /\ UNCHANGED <<asm_vars, hist, gpc, hw_regs>>

\* action == 'write'
WalkWrite ==
    /\ gpc = "walk"
    /\ gstep < MaxWalk
    /\ \E offset \in Offsets, val \in WalkVals :
          IF AddrOk(current_ptr, offset)
          THEN LET cpu1 == execute([regs |-> sim_regs, mem |-> sim_mem],
                                   "addi", 2, 0, <<>>, <<val>>)
                   cpu2 == execute(cpu1, "sw", 0, 1, <<2>>, <<offset>>)
               IN  /\ sim_regs' = cpu2.regs
                   /\ sim_mem' = cpu2.mem
                   /\ call' = [op |-> "sw", rd |-> 0, rs1 |-> 1, rs2 |-> <<2>>,
                               imm |-> <<offset>>]
                   /\ u_rs1' = get_reg(cpu1.regs, 1)
                   /\ u_rs2' = get_reg(cpu1.regs, 2)
                   /\ nsteps' = nsteps + 2
                   /\ asm' = asm \o <<AsmLine("addi", 2, 0, <<>>, <<val>>),
                                      AsmLine("sw", 0, 1, <<2>>, <<offset>>)>>
          ELSE UNCHANGED <<sim_regs, sim_mem, call, u_rs1, u_rs2, nsteps, asm>>
    /\ gstep' = gstep + 1
    /\ UNCHANGED <<asm_vars, hist, gpc, current_ptr, hw_regs>>

\* action == 'read'
WalkRead ==
    /\ gpc = "walk"
    /\ gstep < MaxWalk
    /\ \E offset \in Offsets, dest \in Dests :
          IF AddrOk(current_ptr, offset)
          THEN LET n == After("lw", dest, 1, <<>>, <<offset>>)
               IN  /\ sim_regs' = n.regs
                   /\ sim_mem' = n.mem
                   /\ call' = n.call
                   /\ u_rs1' = n.u_rs1
                   /\ u_rs2' = n.u_rs2
                   /\ nsteps' = nsteps + 1
                   /\ asm' = Append(asm, AsmLine("lw", dest, 1, <<>>, <<offset>>))
          ELSE UNCHANGED <<sim_regs, sim_mem, call, u_rs1, u_rs2, nsteps, asm>>
    /\ gstep' = gstep + 1
    /\ UNCHANGED <<asm_vars, hist, gpc, current_ptr, hw_regs>>

NextWalk == WalkStart \/ WalkMove \/ WalkWrite \/ WalkRead

SpecWalk == InitWalk /\ [][NextWalk]_vars

\* C18: after every step of the walk current_ptr equals reference register
\* x1 and is a multiple of 4 in 0..1999, register x0 is 0, and every sw or
\* lw emitted has an effective address regs[x1] + offset that is a multiple
\* of 4 in 0..2039.
WalkInvariant ==
    gpc = "walk" =>
        /\ sim_regs[1] = <<0, current_ptr>>
        /\ current_ptr % 4 = 0
        /\ current_ptr \in 0..1999
        /\ sim_regs[0] = <<0, 0>>
        /\ asm[Len(asm)].op \in {"sw", "lw"} =>
              /\ asm[Len(asm)].rs1 = 1
              /\ call.op = asm[Len(asm)].op
              /\ call.imm = asm[Len(asm)].imm
              /\ (sim_regs[1][2] + asm[Len(asm)].imm[1]) % 4 = 0
              /\ (sim_regs[1][2] + asm[Len(asm)].imm[1]) \in 0..2039
              /\ EffAddr([u_rs1 |-> u_rs1, imm |-> call.imm])
                    = <<0, sim_regs[1][2] + asm[Len(asm)].imm[1]>>

\* the pointer has walked down to 0, the lowest position, in five moves and
\* a word was then stored through it
WalkInvariantWitness ==
    /\ gpc = "walk"
    /\ current_ptr = 0
    /\ sim_regs[1] = <<0, 0>>
    /\ asm[Len(asm)].op = "sw"
    /\ <<0, 400>> \in DOMAIN sim_mem


(***************************************************************************)
(* gen_branch_maze: blocks of two register loads, a branch and an          *)
(* increment of the accumulator x10 that the branch may skip.              *)
(***************************************************************************)
\* blocks of one maze (range(15) in the generator)
MaxBlocks == 2

\* r1, r2 = random.randint(1, 15): apart, equal, and either one the
\* accumulator
MazeRegs == {<<1, 2>>, <<1, 1>>, <<10, 2>>, <<2, 10>>}

\* v1, v2 = random_imm12()
MazeVals == {<<-1, 0>>, <<0, -1>>, <<7, 7>>, <<-2048, 2047>>}

BranchTypes == {"beq", "bne", "blt"}

\* f"{b_type} x{r1}, x{r2}, skip_{block_idx}"
AsmBranch(b_type, r1, r2, block_idx) ==
    [op |-> b_type, rd |-> 0, rs1 |-> r1, rs2 |-> <<r2>>, imm |-> <<>>,
     target |-> <<block_idx>>]

\* f"skip_{block_idx}:"
AsmLabel(block_idx) ==
    [op |-> "label", rd |-> 0, rs1 |-> 0, rs2 |-> <<>>, imm |-> <<>>,
     target |-> <<block_idx>>]

\* a truth check that compares the stored words of blt as unsigned numbers
Taken_unsigned(b_type, u_v1, u_v2) ==
    CASE b_type = "beq" -> u_v1 = u_v2
      [] b_type = "bne" -> u_v1 # u_v2
      [] b_type = "blt" -> BigLess(u_v1, u_v2)

\* the generator's truth check of the branch
Taken(b_type, u_v1, u_v2) ==
    CASE b_type = "beq" -> u_v1 = u_v2
      [] b_type = "bne" -> u_v1 # u_v2
      [] b_type = "blt" -> BigLess(_to_signed_32(u_v1), _to_signed_32(u_v2))

\* sim = ReferenceCPU(); asm = []
InitMaze ==
    /\ CpuIdle
    /\ AsmIdle
    /\ hist = <<>>
    /\ gpc = "maze_start"
    /\ asm = <<>>
    /\ current_ptr = 0
    /\ gstep = 0
    /\ hw_regs = <<>>

\* asm.append("addi x10, x0, 0"): emitted only, the reference model is not
\* driven
MazeStart ==
    /\ gpc = "maze_start"
    /\ asm' = Append(asm, AsmLine("addi", 10, 0, <<>>, <<0>>))
    /\ gpc' = "maze"
    /\ UNCHANGED <<asm_vars, cpu_vars, hist, current_ptr, gstep, hw_regs>>

\* one iteration of `for block_idx in range(15)`
MazeBlock ==
    /\ gpc = "maze"
    /\ gstep < MaxBlocks
    /\ \E r \in MazeRegs, v \in MazeVals, b_type \in BranchTypes :
          LET cpu0  == [regs |-> sim_regs, mem |-> sim_mem]
              cpu1  == execute(cpu0, "addi", r[1], 0, <<>>, <<v[1]>>)
              cpu2  == execute(cpu1, "addi", r[2], 0, <<>>, <<v[2]>>)
              taken == Taken(b_type, get_reg(cpu2.regs, r[1]), get_reg(cpu2.regs, r[2]))
              cpu3  == IF taken THEN cpu2
                       ELSE execute(cpu2, "addi", 10, 10, <<>>, <<1>>)
          IN  /\ sim_regs' = cpu3.regs
              /\ sim_mem' = cpu3.mem
              /\ call' = IF taken
                         THEN [op |-> "addi", rd |-> r[2], rs1 |-> 0, rs2 |-> <<>>,
                               imm |-> <<v[2]>>]
                         ELSE [op |-> "addi", rd |-> 10, rs1 |-> 10, rs2 |-> <<>>,
                               imm |-> <<1>>]
              /\ u_rs1' = IF taken THEN get_reg(cpu1.regs, 0) ELSE get_reg(cpu2.regs, 10)
              /\ u_rs2' = Zero32
              /\ nsteps' = nsteps + (IF taken THEN 2 ELSE 3)
              /\ asm' = asm \o <<AsmLine("addi", r[1], 0, <<>>, <<v[1]>>),
                                 AsmLine("addi", r[2], 0, <<>>, <<v[2]>>),
                                 AsmBranch(b_type, r[1], r[2], gstep),
                                 AsmLine("addi", 10, 10, <<>>, <<1>>),
                                 AsmLabel(gstep)>>
    /\ gstep' = gstep + 1
    /\ UNCHANGED <<asm_vars, hist, gpc, current_ptr, hw_regs>>

\* the loop is over: checks = {x10: sim.get_reg(10)}
MazeDone ==
    /\ gpc = "maze"
    /\ gstep = MaxBlocks
    /\ gpc' = "generated"
    /\ UNCHANGED <<asm_vars, cpu_vars, hist, asm, current_ptr, gstep, hw_regs>>


\* The CPU that runs the emitted program: fetch and execute from pc 0 with
\* all registers zero; addi adds the sign-extended 12-bit field, beq and bne
\* branch on equality and inequality, blt on signed less-than.
IsInstr(l) == l.op # "label"

\* the instruction at address 4 * (k - 1) is ProgInstrs(a)[k]
ProgInstrs(a) == SelectSeq(a, IsInstr)

\* the index in ProgInstrs(a) of the instruction that follows label skip_k
TargetOf(a, k) ==
    LET at == CHOOSE i \in 1..Len(a) : a[i].op = "label" /\ a[i].target = <<k>>
    IN  Cardinality({i \in 1..at : IsInstr(a[i])}) + 1

\* (u + d) mod 2^32 for a register value u and a small integer d
HwAdd(u, d) ==
    LET lo == u[2] + d
    IN  <<(u[1] + (lo \div 65536)) % 65536, lo % 65536>>

HwBranches(op, a, b) ==
    CASE op = "beq" -> a = b
      [] op = "bne" -> a # b
      [] op = "blt" -> SignedLess(a, b)

RECURSIVE HwRun(_, _, _)
HwRun(a, ipc, x) ==
    IF ipc > Len(ProgInstrs(a)) THEN x
    ELSE LET i == ProgInstrs(a)[ipc]
         IN  IF i.op = "addi"
             THEN HwRun(a, ipc + 1,
                        [x EXCEPT ![i.rd] = HwAdd(x[i.rs1], sext12(i.imm[1] % 4096))])
             ELSE HwRun(a, IF HwBranches(i.op, x[i.rs1], x[i.rs2[1]])
                           THEN TargetOf(a, i.target[1]) ELSE ipc + 1,
                        x)

\* the emitted program is assembled and run on the CPU under test
RunOnCpu ==
    /\ gpc = "generated"
    /\ hw_regs' = HwRun(asm, 1, [r \in 0..31 |-> Zero32])
    /\ gpc' = "ran"
    /\ UNCHANGED <<asm_vars, cpu_vars, hist, asm, current_ptr, gstep>>

NextMaze == MazeStart \/ MazeBlock \/ MazeDone \/ RunOnCpu

SpecMaze == InitMaze /\ [][NextMaze]_vars

\* C16: the expected x10 the generator derives by driving the reference
\* model equals x10 after the fetch-execute run of the emitted program,
\* also when r1 = r2 and when r1 or r2 is the accumulator x10.
MazeOracle ==
    gpc = "ran" => hw_regs[10] = sim_regs[10]

\* a maze in which the accumulator was loaded with -1 as r1, a blt was
\* emitted, and both sides end with x10 = 1
MazeOracleWitness ==
    /\ gpc = "ran"
    /\ hw_regs[10] = <<0, 1>>
    /\ sim_regs[10] = <<0, 1>>
    /\ \E i \in 1..Len(asm) : asm[i].op = "blt" /\ asm[i].rs1 = 10
    /\ \E j \in 1..Len(asm) : asm[j].op = "addi" /\ asm[j].rd = 10 /\ asm[j].imm = <<-1>>
====
